---- MODULE Spec2Model ----
(***************************************************************************)
(* The call lifecycle of WasmRuntime (x/contracts/runtime): module         *)
(* acquisition through the two cache tiers, the per-call ephemeral         *)
(* instance, the callerInfo side table keyed by store address, fuel        *)
(* metering and the block statistics.  Every goroutine of Procs runs       *)
(* CallContract; the steps are the points at which a call touches state    *)
(* shared with the other calls.                                            *)
(***************************************************************************)
EXTENDS Integers, Sequences, FiniteSets, TLC

\* ---------------------------------------------------------------- bounds
NumProcs == 2            \* goroutines calling CallContract on one runtime
MaxCalls == 3            \* CallContract calls started in one behaviour
UintBits == 3            \* width of the unsigned counters (uint64 scaled down)
ContractCacheSize == 1   \* cfg.ContractCacheSize, the byte budget of the LRU
HighFuel == 4            \* the tests' WithFuel(1000000), scaled down
GrantFuel == 2           \* the amount a host capability grants with AddFuel
BurnFuel == 2            \* the amount a host capability debits with ConsumeFuel
MaxOps == 3              \* statistics operations started in one behaviour
MaxTime == 2             \* the longest ExecutionTime sample, in nanoseconds

\* ------------------------------------------------------------- constants
LowFuel == 1             \* the tests' WithFuel(1)
AllocFuel == 1           \* fuel the contract's alloc export burns
EntrySize == 1           \* len(id) + len(bytes) of a cached module, one unit

Nil == "nil"
NoErr == "ok"
Procs == 1..NumProcs
Addrs == 1..NumProcs     \* addresses the allocator hands out for store contexts
Mod == 2^UintBits        \* unsigned arithmetic is modulo Mod

\* -------------------------------------------------- the state collaborator
Accounts == {"acctSimple", "acctOther", "acctMalformed", "acctNoLink",
             "acctNoBytes", "acctNone"}

\* ContractManager.GetAccountContract: the contract id of an account, Nil
\* when the account has no contract.
GetAccountContract(account) ==
    CASE account = "acctSimple"    -> "simple"
      [] account = "acctOther"     -> "other"
      [] account = "acctMalformed" -> "malformed"
      [] account = "acctNoLink"    -> "nolink"
      [] account = "acctNoBytes"   -> "nobytes"
      [] OTHER                     -> Nil

ContractIDs == {"simple", "other", "malformed", "nolink", "nobytes"}

\* ContractManager.GetContractBytes: Nil when no bytes are stored.
GetContractBytes(id) == IF id = "nobytes" THEN Nil ELSE id

\* wasmtime.NewModule: malformed bytes do not compile.
Compiles(bytes) == bytes # "malformed"

\* linker.Instantiate: a module with an unresolved import does not link.
Links(mod) == mod.id # "nolink"

\* A compiled module: the id it was compiled for and which compilation of
\* that id produced it.  NoMod is the nil *wasmtime.Module.
NoMod == [id |-> Nil, gen |-> 0]

\* The exports of the test contract and what each does when called: a
\* sequence of steps, each a wasm instruction burning one unit of fuel, a
\* trap, or a call of a host capability.
FunctionNames == {"get_value", "missing", "trap", "add_fuel", "add_fuel_max",
                  "consume_fuel", "get_info"}

Exported(fn) == fn # "missing"

Program(fn) ==
    CASE fn = "get_value"    -> <<"burn", "burn">>
      [] fn = "trap"         -> <<"burn", "unreachable">>
      [] fn = "add_fuel"     -> <<"AddFuel">>
      [] fn = "add_fuel_max" -> <<"AddFuelMax">>
      [] fn = "consume_fuel" -> <<"ConsumeFuel", "burn">>
      [] fn = "get_info"     -> <<"getCallInfo", "burn">>
      [] OTHER               -> <<>>

\* math.MaxUint64, the largest amount AddFuel can be asked to grant.
MaxUint64 == Mod - 1

\* The bytes a completed function leaves as the call's result.
ResultOf(ci) == <<GetAccountContract(ci.Contract), ci.FunctionName>>

\* The CallInfo of a goroutine that is not in a call.
NoCallInfo == [Contract |-> Nil, FunctionName |-> Nil, Fuel |-> 0]

\* The CallInfo values the callers pass.
CallInfos ==
    {ci \in [Contract : Accounts, FunctionName : FunctionNames,
             Fuel : {LowFuel, HighFuel}] :
        /\ ci.Contract \notin {"acctSimple", "acctOther"}
             => ci.FunctionName = "get_value" /\ ci.Fuel = HighFuel
        /\ ci.Contract = "acctOther" => ci.FunctionName \in {"get_value", "missing"}
        /\ ci.Fuel = LowFuel => ci.FunctionName \in {"get_value", "consume_fuel"}}

\* The CallInfo values of the concurrent callers: the tests' goroutines all
\* call one contract with ample fuel.
ConcurrentCallInfos ==
    {ci \in CallInfos : /\ ci.Contract = "acctSimple"
                        /\ ci.FunctionName \in {"get_value", "get_info"}
                        /\ ci.Fuel = HighFuel}

\* The configuration given to NewRuntime: the optional cache strategy, the
\* optional validator (accepting or rejecting), and whether the engine
\* configuration enables fuel (store.SetFuel fails when it does not).
Configs ==
    [hasCache : BOOLEAN, validator : {"none", "accept", "reject"},
     fuelEnabled : BOOLEAN]

VARIABLES
    cfg,            \* r.cfg: the configuration, fixed at construction
    cache,          \* r.cache: the strategy's modules, id -> module or NoMod
    contractCache,  \* r.contractCache: the LRU, least recently used first
    callerInfo,     \* r.callerInfo: store address -> call number, 0 for none
    blockStats,     \* r.blockStats
    stores,         \* the store each call created: [addr, fuel, closes]
    pc,             \* where each goroutine is in CallContract
    callInfo,       \* the *CallInfo each goroutine was called with
    frame,          \* the locals of each goroutine's CallContract
    raced,          \* goroutines whose current map access overlapped another
    crashed,        \* the Go runtime threw a fatal error
    calls,          \* CallContract calls started so far
    prev,           \* the call that returned last: target, error, cold or not
    fx,             \* per goroutine: what its current call has done so far
    job,            \* per goroutine: the statistics operation it is inside
    ops             \* statistics operations started so far

vars == <<cfg, cache, contractCache, callerInfo, blockStats, stores, pc,
          callInfo, frame, raced, crashed, calls, prev, fx, job, ops>>

\* What the statistics operations add to the state of a goroutine.
statVars == <<job, ops>>

\* ------------------------------------------------------------ the LRU
\* cache.NewSizedLRU of avalanchego with the size function of NewRuntime.
LRUHas(c, id) == \E i \in 1..Len(c) : c[i].id = id

LRUFind(c, id) == (CHOOSE i \in 1..Len(c) : c[i].id = id)

LRUWithout(c, id) == SelectSeq(c, LAMBDA e : e.id # id)

\* Get moves the entry to the most recently used end.
LRUGet(c, id) == Append(LRUWithout(c, id), c[LRUFind(c, id)])

RECURSIVE LRUEvict(_, _)
LRUEvict(c, room) ==
    IF Len(c) * EntrySize <= room \/ c = <<>> THEN c ELSE LRUEvict(Tail(c), room)

\* A Put that adds an entry without replacing the id's entry or evicting.
LRUPutAppended(c, id, mod) == Append(c, [id |-> id, mod |-> mod])

\* A Put that stores nothing.
LRUPutDropped(c, id, mod) == c

\* Put flushes the cache when the entry alone exceeds the budget; otherwise
\* it replaces the id's entry, evicting the least recently used to make room.
LRUPut(c, id, mod) ==
    IF EntrySize > ContractCacheSize THEN <<>>
    ELSE Append(LRUEvict(LRUWithout(c, id), ContractCacheSize - EntrySize),
                [id |-> id, mod |-> mod])

\* ---------------------------------------------------------------- Init
\* BlockStats after NewRuntime: every counter zero.
NoStats == [TotalFuelUsed |-> 0, ContractCalls |-> 0, AvgExecutionTime |-> 0,
            CacheHits |-> 0]

\* The locals of CallContract and of the functions it calls.  result is <<>>
\* for nil bytes; info is the call a getCallInfo lookup returned, 0 for nil;
\* cached and snap are the state the call found at its entry: whether a
\* cache tier held its module, and the block statistics; overlapped tells
\* that another call put a module for the same id into the strategy between
\* this call's two puts.
NoFrame == [callNo |-> 0, id |-> Nil, mod |-> NoMod, startFuel |-> 0,
            ip |-> 0, looked |-> FALSE, info |-> 0, result |-> <<>>,
            err |-> NoErr, fuelUsed |-> 0, cached |-> FALSE, snap |-> NoStats,
            overlapped |-> FALSE]

\* No call has returned yet.
NoPrev == [Contract |-> Nil, err |-> NoErr, cold |-> FALSE]

\* An ExecutionStats as createEphemeralInstance makes it.
NoExecStats == [FuelUsed |-> 0, ExecutionTime |-> 0, CacheHit |-> FALSE]

\* The ExecutionStats values handed to UpdateBlockStats.
ExecutionStatsSet ==
    [FuelUsed : {0, LowFuel}, ExecutionTime : 0..MaxTime, CacheHit : BOOLEAN]

\* The ExecutionStats values of the concurrent updates.
ConcurrentStatsSet ==
    {st \in ExecutionStatsSet : st.FuelUsed = LowFuel /\ st.ExecutionTime = MaxTime}

\* A goroutine inside no statistics operation.  stats, currentAvg and calls
\* are the parameter and the locals of UpdateBlockStats, res the BlockStats
\* that GetBlockStats builds, err a panic; snap is the block statistics the
\* operation found at its entry, seen the values the block statistics have
\* had during a GetBlockStats; last is the statistics operation the goroutine
\* returned from before, and at the number of calls started by then.
NoJob == [op |-> "idle", ip |-> 0, stats |-> NoExecStats, currentAvg |-> 0,
          calls |-> 0, res |-> NoStats, snap |-> NoStats, seen |-> {},
          err |-> NoErr, last |-> "idle", at |-> 0]

\* No store: stores[n] until call n creates its store.
NoStore == [addr |-> 0, fuel |-> 0, closes |-> 0]

StoreIds == 1..MaxCalls

Init ==
    /\ cfg \in Configs
    /\ cache = [id \in ContractIDs |-> NoMod]
    /\ contractCache = <<>>
    /\ callerInfo = [a \in Addrs |-> 0]
    /\ blockStats = NoStats
    /\ stores = [s \in StoreIds |-> NoStore]
    /\ pc = [p \in Procs |-> "idle"]
    /\ callInfo = [p \in Procs |-> NoCallInfo]
    /\ frame = [p \in Procs |-> NoFrame]
    /\ raced = {}
    /\ crashed = FALSE
    /\ calls = 0
    /\ prev = NoPrev
    /\ fx = [p \in Procs |-> {}]
    /\ job = [p \in Procs |-> NoJob]
    /\ ops = 0

\* The runtime of newTestRuntime: no cache strategy, no validator, fuel on.
StatsInit ==
    /\ Init
    /\ cfg = [hasCache |-> FALSE, validator |-> "none", fuelEnabled |-> TRUE]

\* A runtime without validator, fuel on, with or without a cache strategy.
SeqStatsInit ==
    /\ Init
    /\ cfg.validator = "none" /\ cfg.fuelEnabled

\* ------------------------------------------------------- pure helpers
\* CallInfo.AddFuel: SetFuel(remaining + fuel), in unsigned arithmetic.
AddFuel(remaining, fuel) == (remaining + fuel) % Mod

\* A ConsumeFuel that debits without comparing.
ConsumeFuelUnchecked(remaining, fuel) ==
    [err |-> NoErr, fuel |-> (remaining - fuel) % Mod]

\* CallInfo.ConsumeFuel: an out-of-fuel error and no change when the amount
\* exceeds what remains, SetFuel(remaining - fuel) otherwise.
ConsumeFuel(remaining, fuel) ==
    IF remaining < fuel THEN [err |-> "out of fuel", fuel |-> remaining]
    ELSE [err |-> NoErr, fuel |-> (remaining - fuel) % Mod]

\* EphemeralInstance.Call: e.stats.FuelUsed = startFuel - endFuel, unsigned.
FuelUsed(startFuel, endFuel) == (startFuel - endFuel) % Mod

\* A validator whose rejection is swallowed.
ValidateModuleSwallowed(bytes) == NoErr

\* mockValidator.ValidateModule as configured: the error it returns.
ValidateModule(bytes) == IF cfg.validator = "reject" THEN "validation failed" ELSE NoErr

\* The stores that are open, and the addresses their contexts occupy.
LiveStores == {s \in StoreIds : stores[s].addr # 0 /\ stores[s].closes = 0}

LiveAddrs == {stores[s].addr : s \in LiveStores}

\* toMapKey: the address of the store's context.
toMapKey(s) == stores[s].addr

\* A sandbox whose fuel is not enforced: an instruction runs on an empty tank.
RECURSIVE RunUnmetered(_, _, _)
RunUnmetered(prog, ip, fuel) ==
    LET op == IF ip \in 1..Len(prog) THEN prog[ip] ELSE "return"
    IN  CASE op = "burn" -> RunUnmetered(prog, ip + 1, IF fuel >= 1 THEN fuel - 1 ELSE 0)
          [] op = "unreachable" -> [ip |-> ip, fuel |-> fuel, err |-> "trap"]
          [] op = "AddFuel" -> RunUnmetered(prog, ip + 1, (fuel + GrantFuel) % Mod)
          [] op = "AddFuelMax" -> RunUnmetered(prog, ip + 1, (fuel + MaxUint64) % Mod)
          [] op = "ConsumeFuel" ->
               RunUnmetered(prog, ip + 1, IF fuel >= BurnFuel THEN fuel - BurnFuel ELSE 0)
          [] OTHER -> [ip |-> ip, fuel |-> fuel, err |-> NoErr]

\* function.Call: the sandbox runs the function from step ip with the given
\* fuel up to its return, its failure, or its next lookup in callerInfo.
RECURSIVE Run(_, _, _)
Run(prog, ip, fuel) ==
    LET op == IF ip \in 1..Len(prog) THEN prog[ip] ELSE "return"
        debit == ConsumeFuel(fuel, BurnFuel)
    IN  CASE op = "burn" ->
               IF fuel >= 1 THEN Run(prog, ip + 1, fuel - 1)
               ELSE [ip |-> ip, fuel |-> fuel, err |-> "out of fuel"]
          [] op = "unreachable" -> [ip |-> ip, fuel |-> fuel, err |-> "trap"]
          [] op = "AddFuel" -> Run(prog, ip + 1, AddFuel(fuel, GrantFuel))
          [] op = "AddFuelMax" -> Run(prog, ip + 1, AddFuel(fuel, MaxUint64))
          [] op = "ConsumeFuel" ->
               IF debit.err = NoErr THEN Run(prog, ip + 1, debit.fuel)
               ELSE [ip |-> ip, fuel |-> fuel, err |-> debit.err]
          [] OTHER -> [ip |-> ip, fuel |-> fuel, err |-> NoErr]

\* Goroutines inside an access of the callerInfo map, which no lock guards.
MapWriters == {p \in Procs : pc[p] \in {"inSetCallInfo", "inDeleteCallInfo"}}

MapReaders == {p \in Procs : pc[p] = "inGetCallInfo"}

\* Entering a map access: every access it overlaps with, one of the two a
\* write, is a data race for both.
EnterMap(p, writing) ==
    LET others == IF writing THEN (MapWriters \cup MapReaders) \ {p}
                  ELSE MapWriters \ {p}
    IN  raced' = IF others = {} THEN raced ELSE raced \cup others \cup {p}

\* What a map access can end as: its effect; and after a data race also the
\* loss of its effect, or the runtime's fatal error.
Outcomes(p) == IF p \in raced THEN {"done", "lost", "fatal"} ELSE {"done"}

\* The runtime's fatal error (concurrent map writes, or concurrent map read
\* and map write): the process is gone, and the runtime's memory with it.
Fatal ==
    /\ crashed' = TRUE
    /\ cache' = [id \in ContractIDs |-> NoMod]
    /\ contractCache' = <<>>
    /\ callerInfo' = [a \in Addrs |-> 0]
    /\ blockStats' = NoStats
    /\ stores' = [s \in StoreIds |-> NoStore]
    /\ pc' = [p \in Procs |-> "crashed"]
    /\ callInfo' = [p \in Procs |-> NoCallInfo]
    /\ frame' = [p \in Procs |-> NoFrame]
    /\ raced' = {}
    /\ prev' = NoPrev
    /\ fx' = [p \in Procs |-> {}]
    /\ UNCHANGED <<cfg, calls>>

\* Whether a cache tier holds the module of id.
Cached(id) == (cfg.hasCache /\ cache[id] # NoMod) \/ LRUHas(contractCache, id)

\* A getModule that never asks the strategy.
GetModuleSkipped(id) == FALSE

\* r.cache != nil and r.cache.GetModule(id) finds the module.
GetModule(id) == cfg.hasCache /\ cache[id] # NoMod

\* A default cache whose lookups always miss.
GetMisses(id) == FALSE

\* r.contractCache.Get(id) finds the module.
Get(id) == LRUHas(contractCache, id)

\* A cache hit that is not counted.
CountHitDropped(stats) == stats

\* getModule on a hit: atomic.AddUint64(&r.blockStats.CacheHits, 1).
CountHit(stats) == [stats EXCEPT !.CacheHits = (@ + 1) % Mod]

\* ------------------------------------------------------------ actions
\* CallContract returns (frame[p].result, err) to its caller.
Return(p, f, err) ==
    /\ frame' = [frame EXCEPT ![p] = [f EXCEPT !.err = err]]
    /\ pc' = [pc EXCEPT ![p] = "done"]

\* CallContract, runtime.go 142-151, and getModule 102-108: resolve the
\* contract id of the target, then try the custom cache strategy.
Start(p, ci) ==
    LET id == GetAccountContract(ci.Contract)
        f == [NoFrame EXCEPT !.callNo = calls + 1, !.id = id,
                             !.cached = id # Nil /\ Cached(id),
                             !.snap = blockStats]
    IN
    /\ ~crashed /\ pc[p] = "idle" /\ job[p].op = "idle" /\ calls < MaxCalls
    /\ UNCHANGED statVars
    /\ calls' = calls + 1
    /\ callInfo' = [callInfo EXCEPT ![p] = ci]
    /\ IF id = Nil
       THEN /\ Return(p, f, "ResolutionError")
            /\ UNCHANGED <<blockStats, fx>>
       ELSE IF GetModule(id)
       THEN /\ blockStats' = CountHit(blockStats)
            /\ frame' = [frame EXCEPT ![p] = [f EXCEPT !.mod = cache[id]]]
            /\ fx' = [fx EXCEPT ![p] = @ \cup {"hit"}]
            /\ pc' = [pc EXCEPT ![p] = "create"]
       ELSE /\ frame' = [frame EXCEPT ![p] = f]
            /\ pc' = [pc EXCEPT ![p] = "getModuleDefault"]
            /\ UNCHANGED <<blockStats, fx>>
    /\ UNCHANGED <<cfg, cache, contractCache, callerInfo, stores, raced, crashed,
                   prev>>

\* getModule, runtime.go 110-131: the default cache, and on a miss the cold
\* path: fetch the bytes, validate if configured, compile.
GetModuleDefault(p) ==
    LET id == frame[p].id
        bytes == GetContractBytes(id)
        validated == bytes # Nil /\ cfg.validator # "none"
        verr == IF validated THEN ValidateModule(bytes) ELSE NoErr
        compiled == bytes # Nil /\ verr = NoErr /\ Compiles(bytes)
        err == IF bytes = Nil THEN "ByteRetrievalError"
               ELSE IF verr # NoErr THEN verr
               ELSE IF ~Compiles(bytes) THEN "CompilationError" ELSE NoErr
    IN
    /\ ~crashed /\ pc[p] = "getModuleDefault"
    /\ UNCHANGED statVars
    /\ IF Get(id)
       THEN /\ contractCache' = LRUGet(contractCache, id)
            /\ blockStats' = CountHit(blockStats)
            /\ frame' = [frame EXCEPT ![p].mod = contractCache[LRUFind(contractCache, id)].mod]
            /\ fx' = [fx EXCEPT ![p] = @ \cup {"hit"}]
            /\ pc' = [pc EXCEPT ![p] = "create"]
       ELSE /\ fx' = [fx EXCEPT ![p] = @ \cup (IF validated THEN {"validate"} ELSE {})
                                         \cup (IF compiled THEN {"compile"} ELSE {})]
            /\ IF err # NoErr
               THEN Return(p, frame[p], err)
               ELSE /\ frame' = [frame EXCEPT ![p].mod = [id |-> id, gen |-> frame[p].callNo]]
                    /\ pc' = [pc EXCEPT ![p] = IF cfg.hasCache THEN "putModule"
                                               ELSE "putModuleDefault"]
            /\ UNCHANGED <<contractCache, blockStats>>
    /\ UNCHANGED <<cfg, cache, callerInfo, stores, callInfo, raced, crashed, calls, prev>>

\* getModule, runtime.go 133-136: put the module into the cache strategy.
PutModuleCache(p) ==
    /\ ~crashed /\ pc[p] = "putModule"
    /\ UNCHANGED statVars
    /\ cache' = [cache EXCEPT ![frame[p].id] = frame[p].mod]
    /\ fx' = [fx EXCEPT ![p] = @ \cup {"put"}]
    /\ pc' = [pc EXCEPT ![p] = "putModuleDefault"]
    /\ frame' = [q \in Procs |->
                   IF q # p /\ pc[q] = "putModuleDefault" /\ frame[q].id = frame[p].id
                   THEN [frame[q] EXCEPT !.overlapped = TRUE]
                   ELSE frame[q]]
    /\ UNCHANGED <<cfg, contractCache, callerInfo, blockStats, stores, callInfo,
                   raced, crashed, calls, prev>>

\* getModule, runtime.go 137-139: put the module into the default cache.
PutModuleDefault(p) ==
    /\ ~crashed /\ pc[p] = "putModuleDefault"
    /\ UNCHANGED statVars
    /\ contractCache' = LRUPut(contractCache, frame[p].id, frame[p].mod)
    /\ fx' = [fx EXCEPT ![p] = @ \cup {"put"}]
    /\ pc' = [pc EXCEPT ![p] = "create"]
    /\ UNCHANGED <<cfg, cache, callerInfo, blockStats, stores, callInfo, frame,
                   raced, crashed, calls, prev>>

\* A new store whose fuel is never set.
NewStoreUnfuelled(a, maxFuel) == [addr |-> a, fuel |-> 0, closes |-> 0]

\* wasmtime.NewStore and store.SetFuel(maxFuel): an open store at address a.
NewStore(a, maxFuel) == [addr |-> a, fuel |-> maxFuel, closes |-> 0]

\* createEphemeralInstance: a new store at a free address, its fuel set to
\* the call's budget, the module instantiated in it; the store is closed
\* when SetFuel or Instantiate fails.
createEphemeralInstance(p, a) ==
    LET s == frame[p].callNo
        err == IF ~cfg.fuelEnabled THEN "SetFuelError"
               ELSE IF ~Links(frame[p].mod) THEN "InstantiationError" ELSE NoErr
    IN
    /\ ~crashed /\ pc[p] = "create"
    /\ UNCHANGED statVars
    /\ a \in Addrs \ LiveAddrs
    /\ fx' = [fx EXCEPT ![p] = @ \cup {"store"}]
    /\ IF err # NoErr
       THEN /\ \A b \in Addrs \ LiveAddrs : a <= b
            /\ stores' = [stores EXCEPT ![s] = [NoStore EXCEPT !.closes = 1]]
            /\ Return(p, frame[p], err)
       ELSE /\ stores' = [stores EXCEPT ![s] = NewStore(a, callInfo[p].Fuel)]
            /\ pc' = [pc EXCEPT ![p] = "setCallInfo"]
            /\ UNCHANGED frame
    /\ UNCHANGED <<cfg, cache, contractCache, callerInfo, blockStats, callInfo,
                   raced, crashed, calls, prev>>

\* setCallInfo, runtime.go 177-179: r.callerInfo[toMapKey(store)] = info.
setCallInfoBegin(p) ==
    /\ ~crashed /\ pc[p] = "setCallInfo"
    /\ UNCHANGED statVars
    /\ EnterMap(p, TRUE)
    /\ pc' = [pc EXCEPT ![p] = "inSetCallInfo"]
    /\ UNCHANGED <<cfg, cache, contractCache, callerInfo, blockStats, stores,
                   callInfo, frame, crashed, calls, prev, fx>>

setCallInfo(p, outcome) ==
    /\ ~crashed /\ pc[p] = "inSetCallInfo"
    /\ UNCHANGED statVars
    /\ outcome \in Outcomes(p)
    /\ IF outcome = "fatal" THEN Fatal
       ELSE /\ callerInfo' = IF outcome = "done"
                             THEN [callerInfo EXCEPT ![toMapKey(frame[p].callNo)] = frame[p].callNo]
                             ELSE callerInfo
            /\ raced' = raced \ {p}
            /\ fx' = [fx EXCEPT ![p] = @ \cup {"registry"}]
            /\ pc' = [pc EXCEPT ![p] = "call"]
            /\ UNCHANGED <<cfg, cache, contractCache, blockStats, stores, callInfo,
                           frame, crashed, calls, prev>>

\* EphemeralInstance.Call 434-456 and ContractInstance.call 61-90: read the
\* start fuel, look the function up, and copy the parameters into the
\* sandbox with the contract's alloc export, which burns fuel.
Call(p) ==
    LET s == frame[p].callNo
        fuel == stores[s].fuel
        fn == callInfo[p].FunctionName
    IN
    /\ ~crashed /\ pc[p] = "call"
    /\ UNCHANGED statVars
    /\ IF ~Exported(fn)
       THEN /\ frame' = [frame EXCEPT ![p].startFuel = fuel,
                                      ![p].err = "function does not exist"]
            /\ pc' = [pc EXCEPT ![p] = "deleteCallInfo"]
            /\ UNCHANGED <<stores, fx>>
       ELSE IF fuel < AllocFuel
       THEN /\ frame' = [frame EXCEPT ![p].startFuel = fuel,
                                      ![p].err = "failed to write to memory"]
            /\ stores' = [stores EXCEPT ![s].fuel = 0]
            /\ fx' = [fx EXCEPT ![p] = @ \cup {"fuel"}]
            /\ pc' = [pc EXCEPT ![p] = "deleteCallInfo"]
       ELSE /\ frame' = [frame EXCEPT ![p].startFuel = fuel, ![p].ip = 1]
            /\ stores' = [stores EXCEPT ![s].fuel = fuel - AllocFuel]
            /\ fx' = [fx EXCEPT ![p] = @ \cup {"invoked", "fuel"}]
            /\ pc' = [pc EXCEPT ![p] = "exec"]
    /\ UNCHANGED <<cfg, cache, contractCache, callerInfo, blockStats, callInfo,
                   raced, crashed, calls, prev>>

\* The step of the function the sandbox is at, "return" past its last one.
Op(p) ==
    LET prog == Program(callInfo[p].FunctionName)
    IN  IF frame[p].ip \in 1..Len(prog) THEN prog[frame[p].ip] ELSE "return"

\* function.Call, contract.go 92-97, up to the function's next lookup in
\* callerInfo or to its end; then EphemeralInstance.Call 457-466, which
\* records the fuel used only when the call succeeded.
Exec(p) ==
    LET s == frame[p].callNo
        r == Run(Program(callInfo[p].FunctionName), frame[p].ip, stores[s].fuel)
        atLookup == r.err = NoErr /\ r.ip <= Len(Program(callInfo[p].FunctionName))
    IN
    /\ ~crashed /\ pc[p] = "exec" /\ Op(p) # "getCallInfo"
    /\ UNCHANGED statVars
    /\ stores' = [stores EXCEPT ![s].fuel = r.fuel]
    /\ fx' = [fx EXCEPT ![p] = @ \cup {"fuel"}]
    /\ IF atLookup
       THEN /\ frame' = [frame EXCEPT ![p].ip = r.ip]
            /\ UNCHANGED pc
       ELSE /\ frame' = [frame EXCEPT
                   ![p].ip = r.ip,
                   ![p].err = r.err,
                   ![p].fuelUsed = IF r.err = NoErr
                                   THEN FuelUsed(frame[p].startFuel, r.fuel) ELSE @,
                   ![p].result = IF r.err = NoErr THEN ResultOf(callInfo[p]) ELSE @]
            /\ pc' = [pc EXCEPT ![p] = "deleteCallInfo"]
    /\ UNCHANGED <<cfg, cache, contractCache, callerInfo, blockStats, callInfo,
                   raced, crashed, calls, prev>>

\* getCallInfo, runtime.go 181-183, called by a host capability with the
\* store of the call it serves.
getCallInfoBegin(p) ==
    /\ ~crashed /\ pc[p] = "exec" /\ Op(p) = "getCallInfo"
    /\ UNCHANGED statVars
    /\ EnterMap(p, FALSE)
    /\ pc' = [pc EXCEPT ![p] = "inGetCallInfo"]
    /\ UNCHANGED <<cfg, cache, contractCache, callerInfo, blockStats, stores,
                   callInfo, frame, crashed, calls, prev, fx>>

getCallInfo(p, outcome) ==
    /\ ~crashed /\ pc[p] = "inGetCallInfo"
    /\ UNCHANGED statVars
    /\ outcome \in Outcomes(p)
    /\ IF outcome = "fatal" THEN Fatal
       ELSE /\ frame' = [frame EXCEPT
                   ![p].looked = TRUE,
                   ![p].info = IF outcome = "done"
                               THEN callerInfo[toMapKey(frame[p].callNo)] ELSE 0,
                   ![p].ip = @ + 1]
            /\ raced' = raced \ {p}
            /\ pc' = [pc EXCEPT ![p] = "exec"]
            /\ UNCHANGED <<cfg, cache, contractCache, callerInfo, blockStats, stores,
                           callInfo, crashed, calls, prev, fx>>

\* The deferred deleteCallInfo, runtime.go 167 and 185-187: the last defer
\* registered runs first.
deleteCallInfoBegin(p) ==
    /\ ~crashed /\ pc[p] = "deleteCallInfo"
    /\ UNCHANGED statVars
    /\ EnterMap(p, TRUE)
    /\ pc' = [pc EXCEPT ![p] = "inDeleteCallInfo"]
    /\ UNCHANGED <<cfg, cache, contractCache, callerInfo, blockStats, stores,
                   callInfo, frame, crashed, calls, prev, fx>>

deleteCallInfo(p, outcome) ==
    /\ ~crashed /\ pc[p] = "inDeleteCallInfo"
    /\ UNCHANGED statVars
    /\ outcome \in Outcomes(p)
    /\ IF outcome = "fatal" THEN Fatal
       ELSE /\ callerInfo' = IF outcome = "done"
                             THEN [callerInfo EXCEPT ![toMapKey(frame[p].callNo)] = 0]
                             ELSE callerInfo
            /\ raced' = raced \ {p}
            /\ pc' = [pc EXCEPT ![p] = "close"]
            /\ UNCHANGED <<cfg, cache, contractCache, blockStats, stores, callInfo,
                           frame, crashed, calls, prev, fx>>

\* A return that forgets the deferred Close.
CloseForgotten(p) ==
    /\ ~crashed /\ pc[p] = "close"
    /\ UNCHANGED statVars
    /\ pc' = [pc EXCEPT ![p] = "done"]
    /\ UNCHANGED <<cfg, cache, contractCache, callerInfo, blockStats, stores,
                   callInfo, frame, raced, crashed, calls, prev, fx>>

\* The deferred instance.Close, runtime.go 163 and ephemeral_test.go 470-474:
\* the store is closed and its address is free again; then CallContract
\* returns what instance.Call returned.
Close(p) ==
    /\ ~crashed /\ pc[p] = "close"
    /\ UNCHANGED statVars
    /\ stores' = [stores EXCEPT ![frame[p].callNo] =
                      [addr |-> 0, fuel |-> 0, closes |-> @.closes + 1]]
    /\ pc' = [pc EXCEPT ![p] = "done"]
    /\ UNCHANGED <<cfg, cache, contractCache, callerInfo, blockStats, callInfo,
                   frame, raced, crashed, calls, prev, fx>>

\* The caller takes what CallContract returned; the call's frame is gone, and
\* so is the record of its store once that is closed.
Returned(p) ==
    LET s == frame[p].callNo
    IN
    /\ ~crashed /\ pc[p] = "done"
    /\ UNCHANGED statVars
    /\ pc' = [pc EXCEPT ![p] = "idle"]
    /\ frame' = [frame EXCEPT ![p] = NoFrame]
    /\ callInfo' = [callInfo EXCEPT ![p] = NoCallInfo]
    /\ fx' = [fx EXCEPT ![p] = {}]
    /\ stores' = IF s \in LiveStores THEN stores ELSE [stores EXCEPT ![s] = NoStore]
    /\ prev' = [Contract |-> callInfo[p].Contract, err |-> frame[p].err,
                 cold |-> "compile" \in fx[p]]
    /\ UNCHANGED <<cfg, cache, contractCache, callerInfo, blockStats, raced,
                   crashed, calls>>

\* ------------------------------------------------ block statistics
\* An average weighted with the count after the increment.
AvgOfMisweighted(currentAvg, count, t) == (currentAvg * count + t) \div count

\* UpdateBlockStats: the new average, computed in unsigned arithmetic from
\* the average and the call count it loaded and the sample.
AvgOf(currentAvg, count, t) ==
    (((currentAvg * ((count - 1) % Mod)) + t) % Mod) \div count

\* The job of goroutine w becomes j; every GetBlockStats in progress in
\* another goroutine has one more value of the block statistics behind it.
Observed(w, j) ==
    [q \in Procs |->
        IF q = w THEN j
        ELSE IF job[q].op = "Get"
             THEN [job[q] EXCEPT !.seen = @ \cup {blockStats'}]
             ELSE job[q]]

\* A goroutine may enter a statistics operation.
Enter(w) ==
    /\ ~crashed /\ pc[w] = "idle" /\ job[w].op = "idle" /\ ops < MaxOps

\* UpdateBlockStats, ephemeral_test.go 510-522, one atomic operation on the
\* block statistics per step: add the fuel used, add one call, add one cache
\* hit if the sample has one, load the average, load the call count, store
\* the new average.  The division panics when the call count loaded is zero.
UpdateBlockStats(w, st) ==
    LET j == job[w]
        entry == [j EXCEPT !.op = "Update", !.ip = 2, !.stats = st,
                           !.snap = blockStats]
    IN
    /\ IF j.op = "idle"
       THEN /\ Enter(w)
            /\ blockStats' = [blockStats EXCEPT
                   !.TotalFuelUsed = (@ + st.FuelUsed) % Mod]
            /\ job' = Observed(w, entry)
            /\ ops' = ops + 1
       ELSE /\ ~crashed /\ j.op = "Update" /\ st = j.stats /\ j.ip \in 2..6
            /\ ops' = ops
            /\ CASE j.ip = 2 ->
                      /\ blockStats' = [blockStats EXCEPT
                             !.ContractCalls = (@ + 1) % Mod]
                      /\ job' = Observed(w, [j EXCEPT
                             !.ip = IF st.CacheHit THEN 3 ELSE 4])
                 [] j.ip = 3 ->
                      /\ blockStats' = CountHit(blockStats)
                      /\ job' = Observed(w, [j EXCEPT !.ip = 4])
                 [] j.ip = 4 ->
                      /\ blockStats' = blockStats
                      /\ job' = [job EXCEPT ![w] = [j EXCEPT
                             !.ip = 5, !.currentAvg = blockStats.AvgExecutionTime]]
                 [] j.ip = 5 ->
                      /\ blockStats' = blockStats
                      /\ job' = [job EXCEPT ![w] = [j EXCEPT
                             !.ip = 6, !.calls = blockStats.ContractCalls]]
                 [] j.ip = 6 ->
                      IF j.calls = 0
                      THEN /\ blockStats' = blockStats
                           /\ job' = [job EXCEPT ![w] = [j EXCEPT
                                  !.ip = 7, !.err = "integer divide by zero"]]
                      ELSE /\ blockStats' = [blockStats EXCEPT
                                  !.AvgExecutionTime =
                                      AvgOf(j.currentAvg, j.calls, st.ExecutionTime)]
                           /\ job' = Observed(w, [j EXCEPT !.ip = 7])
    /\ UNCHANGED <<cfg, cache, contractCache, callerInfo, stores, pc, callInfo,
                   frame, raced, crashed, calls, prev, fx>>

\* The counters in the order GetBlockStats loads and ResetBlockStats stores
\* them.
Counters == <<"TotalFuelUsed", "ContractCalls", "AvgExecutionTime", "CacheHits">>

\* GetBlockStats, runtime.go 191-198: the i-th atomic load into the result.
Load(res, stats, i) == [res EXCEPT ![Counters[i]] = stats[Counters[i]]]

\* GetBlockStats, runtime.go 191-198: one atomic load per step.
GetBlockStats(w) ==
    LET j == job[w]
        entry == [j EXCEPT !.op = "Get", !.ip = 2, !.snap = blockStats,
                           !.seen = {blockStats},
                           !.res = Load(NoStats, blockStats, 1)]
    IN
    /\ IF j.op = "idle"
       THEN /\ Enter(w)
            /\ job' = [job EXCEPT ![w] = entry]
            /\ ops' = ops + 1
       ELSE /\ ~crashed /\ j.op = "Get" /\ j.ip \in 2..4
            /\ job' = [job EXCEPT ![w] = [j EXCEPT
                   !.ip = IF j.ip = 4 THEN 7 ELSE j.ip + 1,
                   !.res = Load(j.res, blockStats, j.ip)]]
            /\ ops' = ops
    /\ UNCHANGED <<cfg, cache, contractCache, callerInfo, blockStats, stores, pc,
                   callInfo, frame, raced, crashed, calls, prev, fx>>

\* A ResetBlockStats that leaves the cache hits alone.
StoreZeroButHits(stats, i) ==
    IF Counters[i] = "CacheHits" THEN stats ELSE [stats EXCEPT ![Counters[i]] = 0]

\* ResetBlockStats, runtime.go 200-205: the i-th atomic store of zero.
StoreZero(stats, i) == [stats EXCEPT ![Counters[i]] = 0]

\* ResetBlockStats, runtime.go 200-205: one atomic store per step.
ResetBlockStats(w) ==
    LET j == job[w]
        entry == [j EXCEPT !.op = "Reset", !.ip = 2, !.snap = blockStats]
    IN
    /\ IF j.op = "idle"
       THEN /\ Enter(w)
            /\ blockStats' = StoreZero(blockStats, 1)
            /\ job' = Observed(w, entry)
            /\ ops' = ops + 1
       ELSE /\ ~crashed /\ j.op = "Reset" /\ j.ip \in 2..4
            /\ blockStats' = StoreZero(blockStats, j.ip)
            /\ job' = Observed(w, [j EXCEPT !.ip = IF j.ip = 4 THEN 7 ELSE j.ip + 1])
            /\ ops' = ops
    /\ UNCHANGED <<cfg, cache, contractCache, callerInfo, stores, pc, callInfo,
                   frame, raced, crashed, calls, prev, fx>>

\* The caller takes what the statistics operation returned.
StatsReturned(w) ==
    /\ ~crashed /\ job[w].op # "idle" /\ job[w].ip = 7
    /\ job' = [job EXCEPT ![w] = [NoJob EXCEPT !.last = job[w].op, !.at = calls]]
    /\ UNCHANGED <<cfg, cache, contractCache, callerInfo, blockStats, stores, pc,
                   callInfo, frame, raced, crashed, calls, prev, fx, ops>>

\* The steps of the statistics operations.
StatsStep(w, inputs) ==
    \/ \E st \in inputs : UpdateBlockStats(w, st)
    \/ GetBlockStats(w)
    \/ ResetBlockStats(w)
    \/ StatsReturned(w)

\* The steps of CallContract after its entry.
Step(p) ==
    \/ GetModuleDefault(p)
    \/ PutModuleCache(p)
    \/ PutModuleDefault(p)
    \/ \E a \in Addrs : createEphemeralInstance(p, a)
    \/ setCallInfoBegin(p)
    \/ \E o \in {"done", "lost", "fatal"} : setCallInfo(p, o)
    \/ Call(p)
    \/ Exec(p)
    \/ getCallInfoBegin(p)
    \/ \E o \in {"done", "lost", "fatal"} : getCallInfo(p, o)
    \/ deleteCallInfoBegin(p)
    \/ \E o \in {"done", "lost", "fatal"} : deleteCallInfo(p, o)
    \/ Close(p)
    \/ Returned(p)

\* Concurrent calls: goroutines call the same contract on one runtime.
Next == \E p \in Procs : (\E ci \in ConcurrentCallInfos : Start(p, ci)) \/ Step(p)

Spec == Init /\ [][Next]_vars

\* Sequential calls: one goroutine makes every kind of call, one at a time.
SeqNext == (\E ci \in CallInfos : Start(1, ci)) \/ Step(1)

SeqSpec == Init /\ [][SeqNext]_vars

\* Concurrent statistics: goroutines update, read and reset the block
\* statistics of one runtime.
StatsNext == \E w \in Procs : StatsStep(w, ConcurrentStatsSet)

StatsSpec == StatsInit /\ [][StatsNext]_vars

\* Sequential statistics: one goroutine calls a contract and updates, reads
\* and resets the block statistics, one operation at a time.
SeqStatsNext ==
    \/ \E ci \in ConcurrentCallInfos : Start(1, ci)
    \/ Step(1)
    \/ StatsStep(1, ExecutionStatsSet)

SeqStatsSpec == SeqStatsInit /\ [][SeqStatsNext]_vars

\* ------------------------------------------------------------- claims
InFlight(p) == pc[p] \notin {"idle", "done", "crashed"}

Done(p) == pc[p] = "done"

\* The configuration lets a call to a well-formed contract through.
Permissive == cfg.fuelEnabled /\ cfg.validator # "reject"

\* C1: sequential calls: a call that finds its module in a cache tier at its
\* entry gets that cached module from a cache hit, and neither validates, nor
\* compiles, nor puts a module into a tier.
C1_CachedModuleReused ==
    \A p \in Procs :
        (Done(p) /\ frame[p].cached) =>
            /\ fx[p] \cap {"validate", "compile", "put"} = {}
            /\ "hit" \in fx[p]
            /\ \/ cfg.hasCache /\ cache[frame[p].id] = frame[p].mod
               \/ /\ LRUHas(contractCache, frame[p].id)
                  /\ contractCache[LRUFind(contractCache, frame[p].id)].mod = frame[p].mod

\* A later call for a cached id succeeded, with a validator configured.
C1_Witness ==
    \E p \in Procs : /\ Done(p) /\ frame[p].cached /\ frame[p].err = NoErr
                     /\ cfg.validator = "accept"

\* C2: sequential calls: a call that reached the invocation of its function
\* returns with ContractCalls one above the value at its entry.
C2_ContractCallsCounted ==
    \A p \in Procs :
        (Done(p) /\ "invoked" \in fx[p]) =>
            blockStats.ContractCalls = (frame[p].snap.ContractCalls + 1) % Mod

\* C3: every store is closed at most once, the store of a call that has
\* returned is closed exactly once, and every open store belongs to a call
\* that is between the creation of its instance and its deferred Close.
C3_StoreClosedOnce ==
    /\ \A s \in StoreIds : stores[s].closes <= 1
    /\ \A p \in Procs :
          (Done(p) /\ "store" \in fx[p]) =>
              /\ stores[frame[p].callNo].closes = 1
              /\ frame[p].callNo \notin LiveStores
    /\ \A s \in LiveStores :
          \E p \in Procs :
              /\ frame[p].callNo = s
              /\ pc[p] \in {"setCallInfo", "inSetCallInfo", "call", "exec",
                            "inGetCallInfo", "deleteCallInfo", "inDeleteCallInfo",
                            "close"}

\* A call whose function trapped has returned, its store closed.
C3_Witness ==
    \E p \in Procs : /\ Done(p) /\ "store" \in fx[p] /\ frame[p].err = "trap"
                     /\ stores[frame[p].callNo].closes = 1

\* C4: a call that inserted its registry entry returns with no entry of its
\* own left in callerInfo, and callerInfo is empty when no call is in flight.
C4_RegistryEntryRemoved ==
    /\ \A p \in Procs :
          (Done(p) /\ "registry" \in fx[p]) =>
              \A a \in Addrs : callerInfo[a] # frame[p].callNo
    /\ (\A p \in Procs : ~InFlight(p)) => \A a \in Addrs : callerInfo[a] = 0

\* C5: callerInfo holds no entry of a closed store: every entry is keyed by
\* the address of an open store and is the entry of that store's call.
C5_NoEntryOfClosedStore ==
    \A a \in Addrs :
        callerInfo[a] # 0 =>
            \E s \in LiveStores : stores[s].addr = a /\ callerInfo[a] = s

\* C6: the fuel used that a successful call records does not exceed the fuel
\* granted to the call.
C6_FuelUsedWithinGrant ==
    \A p \in Procs :
        (Done(p) /\ frame[p].err = NoErr) => frame[p].fuelUsed <= callInfo[p].Fuel

\* The fuel a function needs when no host capability grants any: what alloc
\* burns, one unit per instruction, and what ConsumeFuel debits.
Work(fn) ==
    LET prog == Program(fn)
    IN  AllocFuel + Cardinality({i \in DOMAIN prog : prog[i] = "burn"})
        + BurnFuel * Cardinality({i \in DOMAIN prog : prog[i] = "ConsumeFuel"})

\* The functions that neither trap nor are granted fuel.
Metered == {"get_value", "consume_fuel", "get_info"}

\* C7: sequential calls to a well-formed contract: with less fuel than the
\* function needs the call returns an error and nil bytes; with enough, it
\* returns the function's result and no error, whatever the calls before it
\* returned.
C7_InsufficientFuelFails ==
    \A p \in Procs :
        (/\ Done(p) /\ Permissive
         /\ callInfo[p].Contract \in {"acctSimple", "acctOther"}
         /\ callInfo[p].FunctionName \in Metered) =>
            IF callInfo[p].Fuel < Work(callInfo[p].FunctionName)
            THEN frame[p].err # NoErr /\ frame[p].result = <<>>
            ELSE frame[p].err = NoErr /\ frame[p].result = ResultOf(callInfo[p])

\* A call with enough fuel succeeded right after a call to the same contract
\* ran out of fuel.
C7_Witness ==
    \E p \in Procs :
        /\ Done(p) /\ frame[p].err = NoErr
        /\ callInfo[p].Fuel >= Work(callInfo[p].FunctionName)
        /\ prev.Contract = callInfo[p].Contract /\ prev.err = "out of fuel"

\* C8: sequential calls: a cold call whose bytes the validator rejects, or
\* whose bytes do not compile, returns that error and nil bytes, having put
\* no module into a tier, created no store, spent no fuel, inserted no
\* registry entry and changed no statistics counter.
C8_RejectedBeforeSandbox ==
    \A p \in Procs :
        (/\ Done(p) /\ ~frame[p].cached
         /\ frame[p].id \in {"simple", "other", "malformed", "nolink"}
         /\ cfg.validator = "reject" \/ frame[p].id = "malformed") =>
            /\ frame[p].err = IF cfg.validator = "reject" THEN "validation failed"
                              ELSE "CompilationError"
            /\ frame[p].result = <<>>
            /\ fx[p] \subseteq {"validate"}
            /\ ~Cached(frame[p].id)
            /\ stores[frame[p].callNo] = NoStore
            /\ \A a \in Addrs : callerInfo[a] # frame[p].callNo
            /\ blockStats = frame[p].snap

\* The validator rejected the bytes of a call made after an earlier call.
C8_Witness ==
    \E p \in Procs : /\ Done(p) /\ frame[p].err = "validation failed"
                     /\ "validate" \in fx[p] /\ frame[p].callNo > 1

\* C9: concurrent calls to one contract: the process does not die, open
\* stores have distinct addresses, a lookup by a call's store returns that
\* call, and every call returns its own result and no error.
C9_ConcurrentCallsIsolated ==
    /\ ~crashed
    /\ \A s, t \in LiveStores : s # t => stores[s].addr # stores[t].addr
    /\ \A p \in Procs : frame[p].looked => frame[p].info = frame[p].callNo
    /\ \A p \in Procs :
          (Done(p) /\ Permissive /\ callInfo[p] \in ConcurrentCallInfos) =>
              frame[p].err = NoErr /\ frame[p].result = ResultOf(callInfo[p])

\* C10: no two goroutines are inside an access of the callerInfo map at the
\* same time with one of them writing.
C10_NoConcurrentMapAccess ==
    \A p, q \in Procs :
        (p # q /\ p \in MapWriters) => q \notin MapWriters \cup MapReaders

\* A module whose compilation for id has finished.
Complete(id, mod) == mod.id = id /\ mod.gen \in 1..calls

\* Goroutine p is past both puts of a cold getModule.
PastPut(p) ==
    /\ {"compile", "put"} \subseteq fx[p]
    /\ pc[p] \notin {"idle", "getModuleDefault", "putModule", "putModuleDefault"}

\* C11: concurrent cold getModule calls for one id: each tier holds at most
\* one module per id at every point in time, every module held is a completely
\* compiled module of that id, and a put leaves the putting call's module in
\* the tier (the last writer's module is the one retained).
C11_ColdCompilesKeepCacheWhole ==
    /\ [](/\ \A i, k \in 1..Len(contractCache) :
                 contractCache[i].id = contractCache[k].id => i = k
          /\ \A i \in 1..Len(contractCache) :
                 Complete(contractCache[i].id, contractCache[i].mod)
          /\ \A id \in ContractIDs : cache[id] # NoMod => Complete(id, cache[id]))
    /\ [][\A p \in Procs :
            /\ (pc[p] = "putModule" /\ pc'[p] = "putModuleDefault") =>
                   cache'[frame[p].id] = frame[p].mod
            /\ (pc[p] = "putModuleDefault" /\ pc'[p] = "create") =>
                   /\ LRUHas(contractCache', frame[p].id)
                   /\ contractCache'[LRUFind(contractCache', frame[p].id)].mod
                          = frame[p].mod]_vars

\* Two calls compiled the same id and both have put their module; the
\* built-in cache holds one entry, the module of one of them.
C11_Witness ==
    \E p, q \in Procs :
        /\ p # q /\ PastPut(p) /\ PastPut(q)
        /\ frame[p].id = frame[q].id /\ frame[p].mod # frame[q].mod
        /\ Len(contractCache) = 1 /\ contractCache[1].mod = frame[q].mod

\* Goroutine w has finished the statistics operation op and not yet returned.
Finished(w, op) == job[w].op = op /\ job[w].ip = 7

\* The counters that only count up.
Counts == {"TotalFuelUsed", "ContractCalls", "CacheHits"}

\* C12: sequential operations: when ResetBlockStats is done all four
\* counters are zero; a GetBlockStats returns the counters as they are, all
\* zero right after a reset; an update counts up from the values it found
\* (from zero after a reset); and no step outside ResetBlockStats lowers a
\* count, or changes the average outside UpdateBlockStats.
C12_ResetZeroesCounters ==
    /\ [](\A w \in Procs :
            /\ Finished(w, "Reset") => blockStats = NoStats
            /\ Finished(w, "Get") =>
                   /\ job[w].res = blockStats
                   /\ (job[w].last = "Reset" /\ job[w].at = calls) =>
                          job[w].res = NoStats
            /\ Finished(w, "Update") =>
                   /\ blockStats.ContractCalls = job[w].snap.ContractCalls + 1
                   /\ blockStats.TotalFuelUsed
                          = job[w].snap.TotalFuelUsed + job[w].stats.FuelUsed
                   /\ blockStats.CacheHits
                          = job[w].snap.CacheHits
                            + (IF job[w].stats.CacheHit THEN 1 ELSE 0))
    /\ [][/\ (\E c \in Counts : blockStats'[c] < blockStats[c]) =>
                 \E w \in Procs : job'[w].op = "Reset"
          /\ blockStats'.AvgExecutionTime # blockStats.AvgExecutionTime =>
                 \E w \in Procs : job'[w].op \in {"Reset", "Update"}]_vars

\* A reset has zeroed four counters that were all non-zero.
C12_Witness ==
    \E w \in Procs :
        /\ Finished(w, "Reset") /\ blockStats = NoStats
        /\ \A c \in DOMAIN NoStats : job[w].snap[c] > 0

\* C13: GetBlockStats returns a consistent snapshot: the four values it
\* returns are together a value the block statistics had at some moment
\* between its entry and its return.
C13_SnapshotConsistent ==
    \A w \in Procs : Finished(w, "Get") => job[w].res \in job[w].seen

\* C14: sequential calls: a successful call returns with TotalFuelUsed above
\* the value at its entry, and with ContractCalls not below it.
C14_TotalFuelUsedIncreases ==
    \A p \in Procs :
        (Done(p) /\ frame[p].err = NoErr) =>
            /\ blockStats.TotalFuelUsed > frame[p].snap.TotalFuelUsed
            /\ blockStats.ContractCalls >= frame[p].snap.ContractCalls

\* C15: sequential calls: a call returns with CacheHits one above the value
\* at its entry when a cache tier resolved its module, and with CacheHits
\* unchanged otherwise; a tier resolves the module exactly when one held it at
\* the call's entry, as it does on every call that follows a successful call
\* to the same contract.
C15_CacheHitsCounted ==
    \A p \in Procs :
        Done(p) =>
            /\ "hit" \in fx[p] <=> frame[p].cached
            /\ blockStats.CacheHits
                  = frame[p].snap.CacheHits + (IF "hit" \in fx[p] THEN 1 ELSE 0)
            /\ (prev.Contract = callInfo[p].Contract /\ prev.err = NoErr) =>
                   "hit" \in fx[p]

\* The third call in a row to one contract has returned, the second and the
\* third both counted as hits.
C15_Witness ==
    \E p \in Procs :
        /\ Done(p) /\ frame[p].callNo = 3 /\ "hit" \in fx[p]
        /\ prev.Contract = callInfo[p].Contract /\ prev.err = NoErr
        /\ blockStats.CacheHits = 2

\* C16: sequential operations: when UpdateBlockStats is done the average is
\* (old average * calls before + sample) / (calls before + 1) with integer
\* division, old average and calls before being the values at the entry of
\* the update; on zeroed statistics the sample becomes the average.
C16_AverageIsIncrementalMean ==
    \A w \in Procs :
        Finished(w, "Update") =>
            /\ blockStats.AvgExecutionTime
                  = (job[w].snap.AvgExecutionTime * job[w].snap.ContractCalls
                     + job[w].stats.ExecutionTime)
                    \div (job[w].snap.ContractCalls + 1)
            /\ job[w].snap = NoStats =>
                   blockStats.AvgExecutionTime = job[w].stats.ExecutionTime

\* The third update in a row is done, its weighted sum not a multiple of 3.
C16_Witness ==
    \E w \in Procs :
        /\ Finished(w, "Update")
        /\ job[w].snap.ContractCalls = 2 /\ job[w].snap.AvgExecutionTime > 0
        /\ (job[w].snap.AvgExecutionTime * 2 + job[w].stats.ExecutionTime) % 3 # 0

\* Goroutine p is past the function's execution, its store still open.
Executed(p) == pc[p] \in {"deleteCallInfo", "inDeleteCallInfo", "close"}

\* C17: for every remaining fuel and every amount, ConsumeFuel returns the
\* out-of-fuel error and the remaining fuel unchanged when the amount exceeds
\* it, and no error and exactly the difference otherwise; a call whose host
\* capability debits more than remains fails with that error and with the
\* store's fuel as it was before the debit.
C17_ConsumeFuelChecked ==
    /\ \A remaining, fuel \in 0..(Mod - 1) :
          LET c == ConsumeFuel(remaining, fuel)
          IN  IF fuel > remaining
              THEN c.err = "out of fuel" /\ c.fuel = remaining
              ELSE c.err = NoErr /\ c.fuel = remaining - fuel /\ c.fuel >= 0
    /\ \A p \in Procs :
          (/\ Executed(p) /\ callInfo[p].FunctionName = "consume_fuel"
           /\ "invoked" \in fx[p]) =>
              LET remaining == frame[p].startFuel - AllocFuel
              IN  IF BurnFuel > remaining
                  THEN /\ frame[p].err = "out of fuel"
                       /\ stores[frame[p].callNo].fuel = remaining
                  ELSE stores[frame[p].callNo].fuel <= remaining - BurnFuel

\* A call's host capability asked for more fuel than remained.
C17_Witness ==
    \E p \in Procs :
        /\ Executed(p) /\ callInfo[p].FunctionName = "consume_fuel"
        /\ "invoked" \in fx[p] /\ frame[p].err = "out of fuel"
        /\ BurnFuel > frame[p].startFuel - AllocFuel
        /\ stores[frame[p].callNo].fuel = frame[p].startFuel - AllocFuel

\* C18: sequential calls: a call of a function the module does not export
\* returns the export-missing error with no fuel spent and with no module put
\* into a cache tier by that call.
C18_MissingExportLeavesNoTrace ==
    \A p \in Procs :
        (/\ Done(p) /\ Permissive
         /\ callInfo[p].Contract \in {"acctSimple", "acctOther"}
         /\ callInfo[p].FunctionName = "missing") =>
            /\ frame[p].err = "function does not exist"
            /\ "fuel" \notin fx[p]
            /\ "put" \notin fx[p]

\* The errors of a function that failed while it ran.
ExecutionErrors == {"out of fuel", "trap"}

\* C19: sequential calls: a call that compiled its module and then failed
\* while executing returns with the module in every configured tier; the next
\* call to the same contract finds it there, is a cache hit without
\* validation or compilation, and succeeds when its function is given the
\* fuel it needs.
C19_ModuleSurvivesFailedCall ==
    \A p \in Procs :
        /\ (Done(p) /\ "compile" \in fx[p] /\ frame[p].err \in ExecutionErrors) =>
               /\ LRUHas(contractCache, frame[p].id)
               /\ contractCache[LRUFind(contractCache, frame[p].id)].mod = frame[p].mod
               /\ cfg.hasCache => cache[frame[p].id] = frame[p].mod
        /\ (/\ Done(p) /\ prev.cold /\ prev.err \in ExecutionErrors
            /\ prev.Contract = callInfo[p].Contract) =>
               /\ frame[p].cached /\ "hit" \in fx[p]
               /\ fx[p] \cap {"validate", "compile", "put"} = {}
               /\ (/\ callInfo[p].FunctionName \in Metered
                   /\ callInfo[p].Fuel >= Work(callInfo[p].FunctionName)) =>
                      frame[p].err = NoErr /\ frame[p].result = ResultOf(callInfo[p])

\* A call succeeded from the cache right after the call that compiled the
\* module ran out of fuel, with a validator configured.
C19_Witness ==
    \E p \in Procs :
        /\ Done(p) /\ prev.cold /\ prev.err = "out of fuel"
        /\ prev.Contract = callInfo[p].Contract
        /\ "hit" \in fx[p] /\ frame[p].err = NoErr
        /\ cfg.validator = "accept"

\* C20: sequential calls: with a validator configured, a call to an account
\* that has no contract returns an error, and ValidateModule has been invoked
\* when it returns.
C20_ValidatorInvokedOnMissingContract ==
    \A p \in Procs :
        (/\ Done(p) /\ cfg.validator # "none"
         /\ GetAccountContract(callInfo[p].Contract) = Nil) =>
            /\ frame[p].err # NoErr
            /\ "validate" \in fx[p]

\* The built-in cache holds mod for id.
LRUHolds(c, id, mod) == LRUHas(c, id) /\ c[LRUFind(c, id)].mod = mod

\* What C21 says of the lookups: a call goes on to the built-in cache only
\* when there is no strategy or the strategy has no module for the id, and a
\* hit in the strategy leaves the built-in cache as it is.
StrategyFirst ==
    \A p \in Procs :
        /\ (pc[p] = "idle" /\ pc'[p] = "getModuleDefault") =>
               ~(cfg.hasCache /\ cache[frame'[p].id] # NoMod)
        /\ (pc[p] = "idle" /\ pc'[p] = "create") =>
               /\ cfg.hasCache /\ frame'[p].mod = cache[frame'[p].id]
               /\ contractCache' = contractCache /\ cache' = cache

\* Goroutine p takes the last step of a cold getModule.
ColdDone(p) == pc[p] = "putModuleDefault" /\ pc'[p] = "create"

\* C21 as stated: the strategy is consulted first and a hit in it leaves the
\* built-in cache alone; and when a cold getModule is done, every configured
\* tier holds the module it compiled, so that the tiers agree.
C21_TiersAgreeAfterColdCompile ==
    [][/\ StrategyFirst
       /\ \A p \in Procs :
             ColdDone(p) =>
                 /\ LRUHolds(contractCache', frame[p].id, frame[p].mod)
                 /\ cfg.hasCache => cache'[frame[p].id] = frame[p].mod]_vars

\* C21 amended: the strategy is consulted first and a hit in it leaves the
\* built-in cache alone; a cold getModule puts the module it compiled into
\* every configured tier; and when it is done the tiers agree on that module
\* unless another call put a module for the same id into the strategy between
\* its two puts, in which case the strategy holds that other call's module.
C21_TiersAgreeUnlessOverlapped ==
    [][/\ StrategyFirst
       /\ \A p \in Procs :
             /\ (pc[p] = "putModule" /\ pc'[p] = "putModuleDefault") =>
                    cache'[frame[p].id] = frame[p].mod
             /\ ColdDone(p) =>
                    /\ LRUHolds(contractCache', frame[p].id, frame[p].mod)
                    /\ (cfg.hasCache /\ ~frame[p].overlapped) =>
                           cache'[frame[p].id] = frame[p].mod
                    /\ (cfg.hasCache /\ frame[p].overlapped) =>
                           /\ Complete(frame[p].id, cache'[frame[p].id])
                           /\ cache'[frame[p].id] # frame[p].mod]_vars

\* Two calls compiled the same id; the one whose puts no other put came
\* between is done, and both tiers hold its module.
C21_Witness ==
    \E p, q \in Procs :
        /\ p # q /\ cfg.hasCache /\ pc[p] = "create" /\ PastPut(p)
        /\ "compile" \in fx[q] /\ frame[q].id = frame[p].id
        /\ ~frame[p].overlapped
        /\ cache[frame[p].id] = frame[p].mod
        /\ LRUHolds(contractCache, frame[p].id, frame[p].mod)

\* Goroutine p holds the store it created.
HasStore(p) ==
    pc[p] \in {"setCallInfo", "inSetCallInfo", "call", "exec", "inGetCallInfo",
               "deleteCallInfo", "inDeleteCallInfo", "close"}

\* C22: a call that creates its sandbox gets a store of its own, open, at an
\* address no other open store has, with exactly the call's Fuel in it until
\* the call itself spends some; the fuel the call starts from is its Fuel;
\* and the fuel of a store changes only in steps of the call that owns it.
C22_FreshSandboxPerCall ==
    /\ [](\A p \in Procs :
            HasStore(p) =>
               /\ frame[p].callNo \in LiveStores
               /\ \A q \in Procs \ {p} :
                      HasStore(q) =>
                         /\ frame[q].callNo # frame[p].callNo
                         /\ toMapKey(frame[q].callNo) # toMapKey(frame[p].callNo)
               /\ "fuel" \notin fx[p] =>
                      stores[frame[p].callNo].fuel = callInfo[p].Fuel
               /\ pc[p] \notin {"setCallInfo", "inSetCallInfo", "call"} =>
                      frame[p].startFuel = callInfo[p].Fuel)
    /\ [][\A s \in StoreIds :
            stores'[s].fuel # stores[s].fuel =>
               \E p \in Procs :
                  /\ frame[p].callNo = s \/ frame'[p].callNo = s
                  /\ pc'[p] # pc[p] \/ frame'[p] # frame[p]]_vars

\* The third call has just created its store, full, while a concurrent call
\* has spent fuel from its own.
C22_Witness ==
    \E p, q \in Procs :
        /\ p # q /\ pc[p] = "setCallInfo" /\ frame[p].callNo = 3
        /\ stores[frame[p].callNo].fuel = callInfo[p].Fuel
        /\ pc[q] = "exec"
        /\ stores[frame[q].callNo].fuel < callInfo[q].Fuel

\* The amount the host capability of a function grants with AddFuel.
Granted(fn) == IF fn = "add_fuel_max" THEN MaxUint64 ELSE GrantFuel

\* C23: a call whose host capability grants fuel with AddFuel ends with
\* exactly that amount more fuel than it had before the grant, never with
\* less; and no step other than a grant or the creation of a store raises
\* the fuel of a store.
C23_AddFuelRaisesExactly ==
    \A p \in Procs :
        /\ (/\ Executed(p) /\ "invoked" \in fx[p] /\ frame[p].err = NoErr
            /\ callInfo[p].FunctionName \in {"add_fuel", "add_fuel_max"}) =>
               LET before == frame[p].startFuel - AllocFuel
               IN  /\ stores[frame[p].callNo].fuel
                         = before + Granted(callInfo[p].FunctionName)
                   /\ stores[frame[p].callNo].fuel >= before
        /\ (/\ Executed(p) /\ "invoked" \in fx[p]
            /\ callInfo[p].FunctionName \notin {"add_fuel", "add_fuel_max"}) =>
               stores[frame[p].callNo].fuel <= frame[p].startFuel

\* C24: under every interleaving of updates and resets, the call count that
\* UpdateBlockStats loads for the average is at least 1, so the update
\* neither weights with a wrapped count nor divides by zero.
C24_UpdateNeverDividesByZero ==
    \A w \in Procs :
        (job[w].op = "Update" /\ job[w].ip >= 6) =>
            job[w].calls >= 1 /\ job[w].err = NoErr

====
